---- MODULE Spec2Model ----
(***************************************************************************)
(* Model of src/pong.py: Paddle, Ball and Game.                            *)
(*                                                                         *)
(* Rectangles are pygame Rects with integer coordinates; a rectangle is    *)
(* kept as its origin (x, y), its size being fixed per entity.             *)
(* The ball's velocity components are Python numbers (int after reset,     *)
(* float after a paddle hit).  They are kept in fixed point, as integer    *)
(* multiples of 1/Scale of a unit per tick: the square root is rounded     *)
(* down and a product toward zero, so a velocity follows the float the     *)
(* program holds to that resolution, has its sign, and is 0 exactly when   *)
(* the float is.                                                           *)
(*                                                                         *)
(* Spec       the game: Game.__init__, then iterations of Game.run         *)
(* SpecPaddle Paddle.move called with arbitrary deltas                     *)
(* SpecBall   Ball's methods called on balls drawn from BallInputs         *)
(* SpecReset  Ball.reset called with any int direction                     *)
(* SpecRun    Game.run with QUIT events, the keys of each iteration kept   *)
(* SpecInput  Game.handle_input called with every set of held keys         *)
(* SpecNoKeys Game.run while no key is ever held                           *)
(***************************************************************************)
EXTENDS Integers, Sequences, FiniteSets, TLC

\* ---------------------------------------------------------------- constants
WIDTH == 800
HEIGHT == 600
PADDLE_WIDTH == 15
PADDLE_HEIGHT == 100
BALL_SIZE == 15
PADDLE_SPEED == 8
BALL_SPEED_INITIAL == 7
WINNING_SCORE == 5
SPEED_CAP == 14
RESET_DELAY == 30
PADDLE1_X == 30
PADDLE_GAP == 2

\* Fixed-point resolution of the velocity components: 1/Scale unit per tick.
Scale == 1000

\* ---------------------------------------------------------------- bounds
\* The largest |dy| handed to Paddle.move in SpecPaddle.
MaxDelta == 1000
\* How many key presses the players make in a run of Spec.
MaxKeyPresses == 4
\* A run of Spec is followed until a player has this many points.
MaxScore == 6
\* How many key presses the players make in a run of SpecRun.
MaxRunKeyPresses == 3
\* How many Ball methods are called in a run of SpecBall.
MaxCalls == 2

\* ---------------------------------------------------------------- state
VARIABLES
    paddle1,      \* Game.paddle1.rect: [x, y]
    paddle2,      \* Game.paddle2.rect: [x, y]
    ball,         \* Game.ball: [x, y, velocity_x, velocity_y]
    score1,
    score2,
    reset_delay,
    key_presses,  \* how many key presses handle_input has applied so far
    running,      \* Game.run's running
    frame,        \* what Game.draw last rendered
    held,         \* the keys handle_input read in the last iteration (recorded
                  \* in SpecRun and SpecInput only)
    last          \* what the last step did.  In Spec, SpecRun and SpecNoKeys:
                  \* [op, hit1, hit2, out_left, out_right].  In SpecPaddle,
                  \* SpecBall and SpecReset: the method called, its argument,
                  \* what it returned, the number of calls so far and the call
                  \* before it: [op, arg, returned, n, prev].  In SpecInput:
                  \* [op, from1, from2], the paddles' y before the call.

vars == <<paddle1, paddle2, ball, score1, score2, reset_delay, key_presses,
          running, frame, held, last>>

\* ---------------------------------------------------------------- Paddle
Min(a, b) == IF a < b THEN a ELSE b
Max(a, b) == IF a > b THEN a ELSE b

\* Paddle.__init__(x, y)
NewPaddle(x, y) == [x |-> x, y |-> y]

\* A paddle that forgets the lower clamp.
ClampYNoFloor(y) == Min(y, HEIGHT - PADDLE_HEIGHT)

\* max(0, min(y, HEIGHT - PADDLE_HEIGHT))
ClampY(y) == Max(0, Min(y, HEIGHT - PADDLE_HEIGHT))

\* Paddle.move(dy)
PaddleMove(p, dy) == [p EXCEPT !.y = ClampY(p.y + dy)]


\* ---------------------------------------------------------------- Ball
Abs(v) == IF v < 0 THEN -v ELSE v
Sign(v) == IF v < 0 THEN -1 ELSE IF v > 0 THEN 1 ELSE 0

\* An int(v) that rounds down.
TruncFloor(v) == v \div Scale

\* int(v) of a velocity component: the integer part, rounded toward zero.
Trunc(v) == Sign(v) * (Abs(v) \div Scale)

\* The integer square root, by bisection: the r in lo..hi with r*r <= n < (r+1)*(r+1).
RECURSIVE SqrtIn(_, _, _)
SqrtIn(n, lo, hi) ==
    IF lo >= hi THEN lo
    ELSE LET mid == (lo + hi + 1) \div 2
         IN  IF mid * mid <= n THEN SqrtIn(n, mid, hi) ELSE SqrtIn(n, lo, mid - 1)

\* (velocity_x ** 2 + velocity_y ** 2) ** 0.5, in 1/Scale units
Speed(b) == SqrtIn(b.velocity_x * b.velocity_x + b.velocity_y * b.velocity_y,
                   0, 3 * SPEED_CAP * Scale)

\* pygame.Rect attributes of the ball and of a paddle
BallLeft(b) == b.x
BallRight(b) == b.x + BALL_SIZE
BallTop(b) == b.y
BallBottom(b) == b.y + BALL_SIZE
BallCenterX(b) == b.x + BALL_SIZE \div 2
BallCenterY(b) == b.y + BALL_SIZE \div 2
PaddleLeft(p) == p.x
PaddleRight(p) == p.x + PADDLE_WIDTH
PaddleTop(p) == p.y
PaddleBottom(p) == p.y + PADDLE_HEIGHT

\* A reset that puts the ball's corner, not its centre, at the playfield centre.
BallResetCorner(direction) ==
    [x |-> WIDTH \div 2,
     y |-> HEIGHT \div 2,
     velocity_x |-> BALL_SPEED_INITIAL * direction * Scale,
     velocity_y |-> 0]

\* Ball.reset(direction)
BallReset(direction) ==
    [x |-> WIDTH \div 2 - BALL_SIZE \div 2,
     y |-> HEIGHT \div 2 - BALL_SIZE \div 2,
     velocity_x |-> BALL_SPEED_INITIAL * direction * Scale,
     velocity_y |-> 0]

\* Ball.move()
BallMove(b) == [b EXCEPT !.x = @ + Trunc(b.velocity_x), !.y = @ + Trunc(b.velocity_y)]

\* A bounce that negates vy instead of forcing its sign.
BounceWallNegate(b) ==
    IF BallTop(b) <= 0
    THEN [b EXCEPT !.y = 0, !.velocity_y = -b.velocity_y]
    ELSE IF BallBottom(b) >= HEIGHT
    THEN [b EXCEPT !.y = HEIGHT - BALL_SIZE, !.velocity_y = -b.velocity_y]
    ELSE b

\* Ball.bounce_wall(): the value returned, and the ball it leaves
BounceWallReturns(b) == BallTop(b) <= 0 \/ BallBottom(b) >= HEIGHT

BounceWall(b) ==
    IF BallTop(b) <= 0
    THEN [b EXCEPT !.y = 0, !.velocity_y = Abs(b.velocity_y)]
    ELSE IF BallBottom(b) >= HEIGHT
    THEN [b EXCEPT !.y = HEIGHT - BALL_SIZE, !.velocity_y = -Abs(b.velocity_y)]
    ELSE b

\* An overlap test that takes touching edges for an overlap.
CollideRectTouching(b, p) ==
    /\ BallLeft(b) <= PaddleRight(p)
    /\ BallTop(b) <= PaddleBottom(p)
    /\ BallRight(b) >= PaddleLeft(p)
    /\ BallBottom(b) >= PaddleTop(p)

\* self.rect.colliderect(paddle.rect): the rectangles overlap (touching edges do not)
CollideRect(b, p) ==
    /\ BallLeft(b) < PaddleRight(p)
    /\ BallTop(b) < PaddleBottom(p)
    /\ BallRight(b) > PaddleLeft(p)
    /\ BallBottom(b) > PaddleTop(p)

\* hit_pos * PADDLE_HEIGHT = centery - paddle.rect.top
HitOffset(b, p) == BallCenterY(b) - PaddleTop(p)

\* A hit that forgets the cap: speed + 0.5
NewSpeedNoCap(b) == Speed(b) + Scale \div 2

\* min(speed + 0.5, 14)
NewSpeed(b) == Min(Speed(b) + Scale \div 2, SPEED_CAP * Scale)

\* A hit whose angle is measured from the paddle's top instead of its centre.
AngleSpeedFromTop(offset, speed) == (3 * 2 * offset * speed) \div (4 * PADDLE_HEIGHT)

\* angle * speed, with angle = (hit_pos - 0.5) * 1.5
\*   = (3 * (offset - PADDLE_HEIGHT / 2) / (2 * PADDLE_HEIGHT)) * speed
AngleSpeed(offset, speed) ==
    LET num == 3 * (2 * offset - PADDLE_HEIGHT) * speed
    IN  Sign(num) * (Abs(num) \div (4 * PADDLE_HEIGHT))

\* A hit without the anti-stick step: the ball stays where it overlapped.
CollidePaddleNoNudge(b, p) ==
    IF CollideRect(b, p)
    THEN [b EXCEPT !.velocity_x = -b.velocity_x,
                   !.velocity_y = AngleSpeed(HitOffset(b, p), NewSpeed(b))]
    ELSE b

\* A hit that applies the speed increase to velocity_x as well.
CollidePaddleRamped(b, p) ==
    IF CollideRect(b, p)
    THEN LET vx == -Sign(b.velocity_x) * (Abs(b.velocity_x) + Scale \div 2)
             vy == AngleSpeed(HitOffset(b, p), NewSpeed(b))
         IN  [x |-> IF vx > 0 THEN PaddleRight(p) + PADDLE_GAP
                              ELSE PaddleLeft(p) - PADDLE_GAP - BALL_SIZE,
              y |-> b.y,
              velocity_x |-> vx,
              velocity_y |-> vy]
    ELSE b

\* A hit whose anti-stick step puts the ball on the far side of the paddle.
CollidePaddleWrongSide(b, p) ==
    IF CollideRect(b, p)
    THEN LET vx == -b.velocity_x
             vy == AngleSpeed(HitOffset(b, p), NewSpeed(b))
         IN  [x |-> IF vx > 0 THEN PaddleLeft(p) - PADDLE_GAP - BALL_SIZE
                              ELSE PaddleRight(p) + PADDLE_GAP,
              y |-> b.y,
              velocity_x |-> vx,
              velocity_y |-> vy]
    ELSE b

\* Ball.collide_paddle(paddle): the value returned, and the ball it leaves
CollidePaddleReturns(b, p) == CollideRect(b, p)

CollidePaddle(b, p) ==
    IF CollideRect(b, p)
    THEN LET vx == -b.velocity_x
             vy == AngleSpeed(HitOffset(b, p), NewSpeed(b))
         IN  [x |-> IF vx > 0 THEN PaddleRight(p) + PADDLE_GAP
                              ELSE PaddleLeft(p) - PADDLE_GAP - BALL_SIZE,
              y |-> b.y,
              velocity_x |-> vx,
              velocity_y |-> vy]
    ELSE b

\* An out-left test on the ball's left edge instead of its right edge.
IsOutLeftEdge(b) == BallLeft(b) < 0

\* Ball.is_out_left(), Ball.is_out_right()
IsOutLeft(b) == BallRight(b) < 0
IsOutRight(b) == BallLeft(b) > WIDTH


\* ---------------------------------------------------------------- Game
Keys == [w : BOOLEAN, s : BOOLEAN, up : BOOLEAN, down : BOOLEAN]
NoKeys == [w |-> FALSE, s |-> FALSE, up |-> FALSE, down |-> FALSE]
PressCount(keys) ==
    (IF keys.w THEN 1 ELSE 0) + (IF keys.s THEN 1 ELSE 0)
    + (IF keys.up THEN 1 ELSE 0) + (IF keys.down THEN 1 ELSE 0)

\* A handle_input that reads the keys only while the ball is in play and
\* nobody has won.
InputPaddleGated(p, upKey, downKey) ==
    IF reset_delay > 0 \/ score1 >= WINNING_SCORE \/ score2 >= WINNING_SCORE
    THEN p
    ELSE LET a == IF upKey THEN PaddleMove(p, -PADDLE_SPEED) ELSE p
         IN  IF downKey THEN PaddleMove(a, PADDLE_SPEED) ELSE a

\* A handle_input in which a player's two keys held together cancel.
InputPaddleCancel(p, upKey, downKey) ==
    IF upKey /\ downKey THEN p
    ELSE IF upKey THEN PaddleMove(p, -PADDLE_SPEED)
    ELSE IF downKey THEN PaddleMove(p, PADDLE_SPEED)
    ELSE p

\* Game.handle_input(), no QUIT event: one player's paddle after the keys held
InputPaddle(p, upKey, downKey) ==
    LET a == IF upKey THEN PaddleMove(p, -PADDLE_SPEED) ELSE p
    IN  IF downKey THEN PaddleMove(a, PADDLE_SPEED) ELSE a

\* Game.update(), reset_delay = 0: the ball after move, bounce_wall and the
\* two collide_paddle calls
BallAfterWall(b) == BounceWall(BallMove(b))
BallAfterPaddle1(b, p1) == CollidePaddle(BallAfterWall(b), p1)
BallAfterPaddles(b, p1, p2) == CollidePaddle(BallAfterPaddle1(b, p1), p2)

\* The first scoring test of update, on match m = [ball, score1, score2, reset_delay]
ScoreLeft(m) ==
    IF IsOutLeft(m.ball)
    THEN [ball |-> BallReset(1), score1 |-> m.score1,
          score2 |-> m.score2 + 1, reset_delay |-> RESET_DELAY]
    ELSE m

\* A second scoring test that scores and sets the delay but leaves the ball
\* where it went out.
ScoreRightNoReset(m) ==
    IF IsOutRight(m.ball)
    THEN [ball |-> m.ball, score1 |-> m.score1 + 1,
          score2 |-> m.score2, reset_delay |-> RESET_DELAY]
    ELSE m

\* The second scoring test of update
ScoreRight(m) ==
    IF IsOutRight(m.ball)
    THEN [ball |-> BallReset(-1), score1 |-> m.score1 + 1,
          score2 |-> m.score2, reset_delay |-> RESET_DELAY]
    ELSE m

\* A countdown that forgets to return: the ball moves while it runs.
UpdateWaitNoReturn ==
    /\ reset_delay' = reset_delay - 1
    /\ ball' = BallMove(ball)
    /\ UNCHANGED <<score1, score2>>
    /\ last' = [op |-> "wait", hit1 |-> FALSE, hit2 |-> FALSE,
                out_left |-> FALSE, out_right |-> FALSE]

\* Game.update(), reset_delay > 0: count down and return
UpdateWait ==
    /\ reset_delay' = reset_delay - 1
    /\ UNCHANGED <<ball, score1, score2>>
    /\ last' = [op |-> "wait", hit1 |-> FALSE, hit2 |-> FALSE,
                out_left |-> FALSE, out_right |-> FALSE]

\* Game.update(), reset_delay = 0, with the paddles at p1, p2.  Each
\* statement's result is bound in turn; last records which branches were taken.
UpdatePlay(p1, p2) ==
    \E b0 \in {BallAfterWall(ball)} :
    \E b1 \in {CollidePaddle(b0, p1)} :
    \E b2 \in {CollidePaddle(b1, p2)} :
    \E l \in {ScoreLeft([ball |-> b2, score1 |-> score1, score2 |-> score2,
                         reset_delay |-> reset_delay])} :
    \E r \in {ScoreRight(l)} :
        /\ ball' = r.ball
        /\ score1' = r.score1
        /\ score2' = r.score2
        /\ reset_delay' = r.reset_delay
        /\ last' = [op |-> "play",
                    hit1 |-> CollidePaddleReturns(b0, p1),
                    hit2 |-> CollidePaddleReturns(b1, p2),
                    out_left |-> IsOutLeft(b2),
                    out_right |-> IsOutRight(l.ball)]

\* Game.update() with the paddles at p1, p2
Update(p1, p2) ==
    IF reset_delay > 0 THEN UpdateWait ELSE UpdatePlay(p1, p2)

\* An update that ends the loop once a player has won.
UpdateReturnsUntilWin(s1, s2) == s1 < WINNING_SCORE /\ s2 < WINNING_SCORE

\* The value Game.update() returns, having left the scores s1, s2: True on
\* both of its paths
UpdateReturns(s1, s2) == TRUE

\* Game.draw(): the frame rendered from paddles p1, p2, ball b and scores s1, s2
Draw(p1, p2, b, s1, s2) ==
    [paddle1 |-> p1, paddle2 |-> p2, ball |-> <<b.x, b.y>>,
     score1 |-> s1, score2 |-> s2,
     message |-> IF s1 >= WINNING_SCORE THEN "Player 1 Wins!"
                 ELSE IF s2 >= WINNING_SCORE THEN "Player 2 Wins!"
                 ELSE ""]

\* Nothing rendered yet
NoFrame == [message |-> "nothing drawn"]

\* Game.__init__
Init ==
    /\ paddle1 = NewPaddle(PADDLE1_X, HEIGHT \div 2 - PADDLE_HEIGHT \div 2)
    /\ paddle2 = NewPaddle(WIDTH - PADDLE1_X - PADDLE_WIDTH, HEIGHT \div 2 - PADDLE_HEIGHT \div 2)
    /\ ball = BallReset(1)
    /\ score1 = 0
    /\ score2 = 0
    /\ reset_delay = 0
    /\ key_presses = 0
    /\ running = TRUE
    /\ frame = NoFrame
    /\ held = NoKeys
    /\ last = [op |-> "init", hit1 |-> FALSE, hit2 |-> FALSE,
               out_left |-> FALSE, out_right |-> FALSE]

\* One iteration of Game.run without a QUIT event: handle_input, update, draw
Iteration(keys) ==
    /\ running
    /\ score1 < MaxScore
    /\ score2 < MaxScore
    /\ key_presses' = key_presses + PressCount(keys)
    /\ paddle1' = InputPaddle(paddle1, keys.w, keys.s)
    /\ paddle2' = InputPaddle(paddle2, keys.up, keys.down)
    /\ Update(paddle1', paddle2')
    /\ running' = UpdateReturns(score1', score2')
    /\ frame' = Draw(paddle1', paddle2', ball', score1', score2')

\* An iteration of the game followed in Spec
Tick(keys) ==
    /\ key_presses + PressCount(keys) <= MaxKeyPresses
    /\ Iteration(keys)
    /\ UNCHANGED held

Next == \E keys \in Keys : Tick(keys)

Spec == Init /\ [][Next]_vars

\* ------------------------------------------------ the loop, with QUIT events
\* SpecRun follows Game.run with the window's QUIT event and records the keys
\* each iteration read.

\* An iteration without a QUIT event
RunTick(keys) ==
    /\ key_presses + PressCount(keys) <= MaxRunKeyPresses
    /\ Iteration(keys)
    /\ held' = keys

\* A quit iteration that still runs update before it draws.
QuitTickAfterUpdate ==
    /\ running
    /\ UNCHANGED <<paddle1, paddle2, key_presses>>
    /\ Update(paddle1, paddle2)
    /\ running' = FALSE
    /\ frame' = Draw(paddle1', paddle2', ball', score1', score2')
    /\ held' = NoKeys

\* An iteration that polls a QUIT event: handle_input returns False before it
\* reads the keys, `and` skips update, draw runs, and the loop ends
QuitTick ==
    /\ running
    /\ running' = FALSE
    /\ frame' = Draw(paddle1, paddle2, ball, score1, score2)
    /\ held' = NoKeys
    /\ last' = [op |-> "quit", hit1 |-> FALSE, hit2 |-> FALSE,
                out_left |-> FALSE, out_right |-> FALSE]
    /\ UNCHANGED <<paddle1, paddle2, ball, score1, score2, reset_delay, key_presses>>

NextRun ==
    \/ \E keys \in Keys : RunTick(keys)
    \/ QuitTick

SpecRun == Init /\ [][NextRun]_vars


\* ---------------------------------------------------------------- Paddle.move alone
\* The deltas handed to Paddle.move: the game's own, the smallest, and extreme ones.
PaddleDeltas == {-MaxDelta, -PADDLE_SPEED, -1, 1, PADDLE_SPEED, MaxDelta}

Called(op, arg, returned) ==
    [op |-> op, arg |-> arg, returned |-> returned, n |-> last.n + 1,
     prev |-> <<last.op, last.arg, last.returned>>]

NotCalled == [op |-> "init", arg |-> 0, returned |-> FALSE, n |-> 0,
              prev |-> <<"none", 0, FALSE>>]

InitPaddle ==
    /\ paddle1 = NewPaddle(PADDLE1_X, HEIGHT \div 2 - PADDLE_HEIGHT \div 2)
    /\ paddle2 = NewPaddle(WIDTH - PADDLE1_X - PADDLE_WIDTH, HEIGHT \div 2 - PADDLE_HEIGHT \div 2)
    /\ ball = BallReset(1)
    /\ score1 = 0
    /\ score2 = 0
    /\ reset_delay = 0
    /\ key_presses = 0
    /\ running = TRUE
    /\ frame = NoFrame
    /\ held = NoKeys
    /\ last = NotCalled

\* paddle1.move(dy)
CallPaddleMove(dy) ==
    /\ paddle1' = PaddleMove(paddle1, dy)
    /\ last' = [Called("move", dy, FALSE) EXCEPT !.n = 0]
    /\ UNCHANGED <<paddle2, ball, score1, score2, reset_delay, key_presses, running, frame, held>>

NextPaddle == \E dy \in PaddleDeltas : CallPaddleMove(dy)

SpecPaddle == InitPaddle /\ [][NextPaddle]_vars

\* ---------------------------------------------------------------- Ball's methods alone
\* Ball rectangles and velocities the methods are called on: at, next to and
\* away from each paddle's edges and the walls, as update leaves them between
\* its statements.
BallXs == {15, 16, 44, 45, 393, 740, 741, 769, 770}
BallYs == {-3, 0, 1, 235, 236, 293, 349, 350, 584, 585, 590}
BallVxs == {-BALL_SPEED_INITIAL * Scale, BALL_SPEED_INITIAL * Scale}
BallVys == {-11760, -6300, -900, 0, 900, 6300, 11760}
PaddleYs == {250, 306}

BallInputs == [x : BallXs, y : BallYs, velocity_x : BallVxs, velocity_y : BallVys]

PaddleOf(i) == IF i = 1 THEN paddle1 ELSE paddle2

InitBall ==
    /\ ball \in BallInputs
    /\ paddle1 \in {NewPaddle(PADDLE1_X, y) : y \in PaddleYs}
    /\ paddle2 = NewPaddle(WIDTH - PADDLE1_X - PADDLE_WIDTH, HEIGHT \div 2 - PADDLE_HEIGHT \div 2)
    /\ score1 = 0
    /\ score2 = 0
    /\ reset_delay = 0
    /\ key_presses = 0
    /\ running = TRUE
    /\ frame = NoFrame
    /\ held = NoKeys
    /\ last = NotCalled

\* ball.collide_paddle(paddle i)
CallCollidePaddle(i) ==
    /\ last.n < MaxCalls
    /\ ball' = CollidePaddle(ball, PaddleOf(i))
    /\ last' = Called("collide_paddle", i, CollidePaddleReturns(ball, PaddleOf(i)))
    /\ UNCHANGED <<paddle1, paddle2, score1, score2, reset_delay, key_presses, running, frame, held>>

\* ball.bounce_wall()
CallBounceWall ==
    /\ last.n < MaxCalls
    /\ ball' = BounceWall(ball)
    /\ last' = Called("bounce_wall", 0, BounceWallReturns(ball))
    /\ UNCHANGED <<paddle1, paddle2, score1, score2, reset_delay, key_presses, running, frame, held>>

\* ball.move()
CallMove ==
    /\ last.n < MaxCalls
    /\ ball' = BallMove(ball)
    /\ last' = Called("move", 0, FALSE)
    /\ UNCHANGED <<paddle1, paddle2, score1, score2, reset_delay, key_presses, running, frame, held>>

\* ball.reset(direction)
CallReset(direction) ==
    /\ last.n < MaxCalls
    /\ ball' = BallReset(direction)
    /\ last' = Called("reset", direction, FALSE)
    /\ UNCHANGED <<paddle1, paddle2, score1, score2, reset_delay, key_presses, running, frame, held>>

NextBall ==
    \/ \E i \in {1, 2} : CallCollidePaddle(i)
    \/ CallBounceWall
    \/ CallMove
    \/ \E direction \in {1, -1} : CallReset(direction)

SpecBall == InitBall /\ [][NextBall]_vars

\* ------------------------------------------------- a game nobody plays
\* SpecNoKeys follows Game.run while no key is ever held and no QUIT event
\* comes.  The loop iterates 60 times a second for as long as running is
\* true, hence the fairness condition.
NextNoKeys == Tick(NoKeys)

SpecNoKeys == Init /\ [][NextNoKeys]_vars /\ WF_vars(NextNoKeys)

\* ------------------------------------------------- Game.handle_input alone
\* SpecInput calls game.handle_input() (no QUIT event) again and again with
\* every set of held keys, from the paddles' initial positions, and records
\* the keys read and where each paddle was before the call.
CallHandleInput(keys) ==
    /\ paddle1' = InputPaddle(paddle1, keys.w, keys.s)
    /\ paddle2' = InputPaddle(paddle2, keys.up, keys.down)
    /\ held' = keys
    /\ last' = [op |-> "handle_input", from1 |-> paddle1.y, from2 |-> paddle2.y]
    /\ UNCHANGED <<ball, score1, score2, reset_delay, key_presses, running, frame>>

NextInput == \E keys \in Keys : CallHandleInput(keys)

SpecInput == Init /\ [][NextInput]_vars

\* ------------------------------------------------- Ball.reset with any int
\* SpecReset calls ball.reset(direction) with the ints its signature admits
\* (direction: int), not only the 1 and -1 that Game.update passes.
ResetDirections == {-2, -1, 0, 1, 2}

NextReset == \E direction \in ResetDirections : CallReset(direction)

SpecReset == InitBall /\ [][NextReset]_vars


\* ================================================================ claims

\* C1: after every Paddle.move(dy), whatever the integers dy handed to the
\* calls so far (the extreme ones included), the paddle created at y = 250 has
\* 0 <= y <= HEIGHT - PADDLE_HEIGHT = 500.
C1_PaddleWithinBounds ==
    /\ 0 <= paddle1.y
    /\ paddle1.y <= 500
    /\ HEIGHT - PADDLE_HEIGHT = 500

\* A move by the extreme negative delta has acted and was clamped at the top,
\* right after a move that had been clamped at the bottom.
C1_Witness ==
    /\ last.op = "move"
    /\ last.arg = -MaxDelta
    /\ last.prev = <<"move", MaxDelta, FALSE>>
    /\ paddle1.y = 0

\* The ball as Ball.reset(direction) leaves it, written out: centre (400, 300)
ServedBall(direction) ==
    [x |-> 393, y |-> 293, velocity_x |-> 7 * direction * Scale, velocity_y |-> 0]

\* C2: in an update with reset_delay = 0, with b the ball after move,
\* bounce_wall and the two collide_paddle calls: if b's right edge is < 0 then
\* score2 goes up by exactly 1, score1 stays, the ball is reset to the centre
\* with direction +1 and reset_delay becomes 30; if b's left edge is > WIDTH
\* then score1 goes up by exactly 1, score2 stays, the ball is reset with
\* direction -1 and reset_delay becomes 30; if neither, both scores and
\* reset_delay stay as they were.
C2_ScoringStep ==
    (reset_delay = 0 /\ last'.op = "play") =>
        LET b == BallAfterPaddles(ball, paddle1', paddle2')
        IN  /\ (b.x + BALL_SIZE < 0) =>
                  /\ score2' = score2 + 1
                  /\ score1' = score1
                  /\ ball' = ServedBall(1)
                  /\ reset_delay' = 30
            /\ (b.x > WIDTH) =>
                  /\ score1' = score1 + 1
                  /\ score2' = score2
                  /\ ball' = ServedBall(-1)
                  /\ reset_delay' = 30
            /\ (~(b.x + BALL_SIZE < 0) /\ ~(b.x > WIDTH)) =>
                  /\ score1' = score1
                  /\ score2' = score2
                  /\ reset_delay' = reset_delay

C2_Scoring == [][C2_ScoringStep]_vars

\* The ball has just left on the right: player 1 has the point and the ball
\* waits at the centre, served toward player 1.
C2_Witness ==
    /\ last.op = "play"
    /\ last.out_right
    /\ score1 = 1
    /\ score2 = 0
    /\ reset_delay = 30
    /\ ball = ServedBall(-1)

\* C3: the update that scores sets reset_delay to 30; every update with
\* reset_delay > 0 lowers reset_delay by exactly 1 and leaves the ball's
\* position, the ball's velocity and both scores as they were; and the update
\* that finds reset_delay = 0 with the ball still as served (the 31st after the
\* scoring one) moves the ball by its horizontal velocity.
C3_FrozenStep ==
    /\ (score1' # score1 \/ score2' # score2) => reset_delay' = 30
    /\ reset_delay > 0 =>
          /\ reset_delay' = reset_delay - 1
          /\ ball' = ball
          /\ score1' = score1
          /\ score2' = score2
    /\ \A direction \in {1, -1} :
          (reset_delay = 0 /\ ball = ServedBall(direction) /\ last'.op = "play") =>
              /\ ball'.x = 393 + 7 * direction
              /\ ball'.y = 293

C3_Frozen == [][C3_FrozenStep]_vars

\* The 30th update after a point: the countdown has just reached 0 with the
\* ball still as served.
C3_Witness ==
    /\ last.op = "wait"
    /\ reset_delay = 0
    /\ score1 + score2 > 0
    /\ \E direction \in {1, -1} : ball = ServedBall(direction)

\* velocity_x ** 2 + velocity_y ** 2, in 1/Scale^2 units
SpeedSquared(b) == b.velocity_x * b.velocity_x + b.velocity_y * b.velocity_y

\* C4: the ball's speed sqrt(vx^2 + vy^2) is at most 14 in every state,
\* in particular right after a successful collide_paddle.  Checked over the
\* velocities of SpecBall, which reach up to the fastest ball a rally of edge
\* hits produces, and over the states of Spec.
C4_SpeedWithinCap == SpeedSquared(ball) <= (14 * Scale) * (14 * Scale)

\* The fastest ball has just been hit at the paddle's very top edge: the new
\* speed was cut to 14 and the hit offset is the most extreme one.
C4_Witness ==
    /\ last.op = "collide_paddle"
    /\ last.returned
    /\ last.prev[1] = "init"
    /\ HitOffset(ball, PaddleOf(last.arg)) = -7
    /\ Abs(ball.velocity_y) = 11970

\* C5: over the hits of a rally the ball's speed sqrt(vx^2 + vy^2) after each
\* successful collide_paddle is not less than its speed after the hit before.
\* The velocity a hit finds is the one the hit before left (up to the sign
\* bounce_wall gives vy), and vy # 0 only after a hit since the last reset.
C5_SpeedNeverDropsStep ==
    (last'.op = "play" /\ (last'.hit1 \/ last'.hit2) /\ ball.velocity_y # 0) =>
        SpeedSquared(ball') >= SpeedSquared(ball)

C5_SpeedNeverDrops == [][C5_SpeedNeverDropsStep]_vars

\* What collide_paddle must have done to the ball b to leave the ball c, hit at
\* offset k = ballCenterY - paddleTop: vx has changed sign and
\* vy = (k / PADDLE_HEIGHT - 0.5) * 1.5 * newSpeed, newSpeed = min(speed + 0.5, 14),
\* to the fixed-point resolution; so vy = 0 at k = 50, vy < 0 above, vy > 0 below.
C6_Deflected(b, c, k) ==
    /\ c.velocity_x = -b.velocity_x
    /\ c.velocity_x # 0
    /\ LET newSpeed == Min(Speed(b) + Scale \div 2, 14 * Scale)
           exact == 3 * (k - 50) * newSpeed      \* 200 * vy
       IN  /\ 200 * c.velocity_y <= exact + 200
           /\ 200 * c.velocity_y >= exact - 200
    /\ (k = 50) => c.velocity_y = 0
    /\ (k < 50) => c.velocity_y < 0
    /\ (k > 50) => c.velocity_y > 0

\* C6: a successful collide_paddle in update flips the sign of vx and sets
\* vy = ((ballCenterY - paddleTop) / PADDLE_HEIGHT - 0.5) * 1.5 * newSpeed: vy = 0
\* for a hit at the paddle's centre, vy < 0 above it and vy > 0 below it; a hit
\* on paddle 1 takes vx from negative to positive.
C6_DeflectionStep ==
    /\ (last'.op = "play" /\ last'.hit1 /\ ~last'.hit2) =>
          /\ C6_Deflected(ball, ball', ball'.y + 7 - paddle1'.y)
          /\ ball.velocity_x < 0
          /\ ball'.velocity_x > 0
    /\ (last'.op = "play" /\ last'.hit2 /\ ~last'.hit1) =>
          C6_Deflected(ball, ball', ball'.y + 7 - paddle2'.y)

C6_Deflection == [][C6_DeflectionStep]_vars

\* Paddle 1 has just hit the ball above its centre and sent it up and to the right.
C6_Witness ==
    /\ last.op = "play"
    /\ last.hit1
    /\ ball.y + 7 - paddle1.y < 50
    /\ ball.velocity_y < 0
    /\ ball.velocity_x > 0

\* The other cases of C6 are reached too: a hit at the very centre of paddle 1
\* and one below it.
C6_CentreHit == last.op = "play" /\ last.hit1 /\ ball.y + 7 - paddle1.y = 50
C6_LowHit == last.op = "play" /\ last.hit1 /\ ball.y + 7 - paddle1.y > 50

\* The ball's rectangle and paddle p's rectangle share a point of positive area.
RectsOverlap(b, p) ==
    /\ Max(b.x, p.x) < Min(b.x + 15, p.x + 15)
    /\ Max(b.y, p.y) < Min(b.y + 15, p.y + 100)

\* C7: collide_paddle called when the ball's rectangle does not overlap the
\* paddle's returns false and leaves the ball's position, its velocity and the
\* paddles as they were.
C7_MissStep ==
    (last'.op = "collide_paddle" /\ last'.n = last.n + 1
     /\ ~RectsOverlap(ball, PaddleOf(last'.arg))) =>
        /\ ~last'.returned
        /\ ball' = ball
        /\ paddle1' = paddle1
        /\ paddle2' = paddle2

C7_MissChangesNothing == [][C7_MissStep]_vars

\* collide_paddle(paddle 1) has returned false for a ball whose left edge
\* touches the paddle's right edge, level with the paddle.
C7_Witness ==
    /\ last.op = "collide_paddle"
    /\ last.arg = 1
    /\ ~last.returned
    /\ ball.x = paddle1.x + 15
    /\ ball.y > paddle1.y
    /\ ball.y < paddle1.y + 85

\* C8: right after a collide_paddle(p) that returned true the ball lies 2 units
\* outside p's edge on the side it now travels toward, and a second
\* collide_paddle(p), the paddle unmoved, returns false and changes nothing.
C8_SecondCallStep ==
    /\ (last'.op = "collide_paddle" /\ last'.n = last.n + 1 /\ last'.returned) =>
          LET p == PaddleOf(last'.arg)
          IN  IF ball'.velocity_x > 0
              THEN ball'.x = p.x + 15 + 2
              ELSE ball'.x + 15 = p.x - 2
    /\ (last.op = "collide_paddle" /\ last.returned
        /\ last'.op = "collide_paddle" /\ last'.n = last.n + 1
        /\ last'.arg = last.arg) =>
          /\ ~last'.returned
          /\ ball' = ball
          /\ paddle1' = paddle1
          /\ paddle2' = paddle2

C8_NoDoubleBounce == [][C8_SecondCallStep]_vars

\* A second collide_paddle on the paddle that has just returned the ball.
C8_Witness ==
    /\ last.op = "collide_paddle"
    /\ ~last.returned
    /\ last.prev = <<"collide_paddle", last.arg, TRUE>>

\* C9: bounce_wall never changes vx or the ball's x; with the top edge <= 0 it
\* sets the top to 0 and leaves vy >= 0; with the bottom edge >= HEIGHT it sets
\* the bottom to HEIGHT and leaves vy <= 0; otherwise it changes nothing; and
\* it returns true exactly when one of the two wall conditions held.
C9_BounceStep ==
    (last'.op = "bounce_wall" /\ last'.n = last.n + 1) =>
        /\ ball'.velocity_x = ball.velocity_x
        /\ ball'.x = ball.x
        /\ (ball.y <= 0) => (ball'.y = 0 /\ ball'.velocity_y >= 0)
        /\ (ball.y + 15 >= 600) => (ball'.y + 15 = 600 /\ ball'.velocity_y <= 0)
        /\ (ball.y > 0 /\ ball.y + 15 < 600) => ball' = ball
        /\ last'.returned <=> (ball.y <= 0 \/ ball.y + 15 >= 600)

C9_BounceWall == [][C9_BounceStep]_vars

\* bounce_wall has returned true at the top wall for a ball that was already
\* moving down: vy stays positive.
C9_Witness ==
    /\ last.op = "bounce_wall"
    /\ last.returned
    /\ last.prev[1] = "init"
    /\ ball.y = 0
    /\ ball.velocity_y > 0
    /\ ball.x = 393

\* The bottom wall is reached too.
C9_BottomBounce ==
    /\ last.op = "bounce_wall"
    /\ last.returned
    /\ ball.y = 585
    /\ ball.velocity_y < 0

\* C10: after Ball.reset(d), d = +1 or -1, from any ball state, the ball's
\* centre is (400, 300), vx = 7 * d and vy = 0.
C10_ResetServes ==
    (last.op = "reset") =>
        /\ last.arg \in {1, -1}
        /\ ball.x + 7 = 400
        /\ ball.y + 7 = 300
        /\ ball.velocity_x = 7 * Scale * last.arg
        /\ ball.velocity_y = 0

\* reset(-1) has been called on a ball a paddle had just deflected.
C10_Witness ==
    /\ last.op = "reset"
    /\ last.arg = -1
    /\ last.prev = <<"collide_paddle", 2, TRUE>>
    /\ ball.velocity_x = -7 * Scale

\* C11: a score at or above WINNING_SCORE suspends nothing: update returns
\* True after every tick, so the loop goes on, and from a state with
\* score1 >= 5 or score2 >= 5 an update still counts the serve delay down or
\* moves the ball, applies the collisions and scores as in any other state; a
\* score above WINNING_SCORE is reached.
C11_WonStep ==
    /\ running'
    /\ (score1 >= 5 \/ score2 >= 5) =>
          /\ C2_ScoringStep
          /\ C3_FrozenStep
          /\ (reset_delay = 0) =>
                /\ last'.op = "play"
                /\ ball' # ball
                /\ ~(last'.out_left \/ last'.out_right) =>
                      ball' = BallAfterPaddles(ball, paddle1', paddle2')

C11_WinSuspendsNothing == [][C11_WonStep]_vars

\* Player 2, who had already won, has just scored a sixth point: the loop
\* still runs and the frame still shows the win message.
C11_Witness ==
    /\ score2 = 6
    /\ score2 > WINNING_SCORE
    /\ last.op = "play"
    /\ last.out_left
    /\ reset_delay = 30
    /\ running
    /\ frame.message = "Player 2 Wins!"

\* A paddle still returns the ball after a win.
C11_HitAfterWin ==
    /\ score1 >= 5 \/ score2 >= 5
    /\ last.op = "play"
    /\ last.hit1 \/ last.hit2

\* C12: paddle input is never gated by the game state.  In every iteration
\* without a QUIT event each paddle ends where the keys read put it: up moves
\* it by -8 and then down by +8, each clamped to 0..500, whether or not
\* reset_delay > 0 and whether or not a player has reached WINNING_SCORE; and
\* update sees the paddles already moved.
C12_Moved(y, upKey, downKey) ==
    LET a == IF upKey THEN Max(0, Min(y - 8, 500)) ELSE y
    IN  IF downKey THEN Max(0, Min(a + 8, 500)) ELSE a

C12_InputStep ==
    last'.op # "quit" =>
        /\ paddle1'.y = C12_Moved(paddle1.y, held'.w, held'.s)
        /\ paddle2'.y = C12_Moved(paddle2.y, held'.up, held'.down)
        /\ paddle1'.x = paddle1.x
        /\ paddle2'.x = paddle2.x
        /\ reset_delay = 0 =>
              /\ last'.hit1 = CollideRect(BallAfterWall(ball), paddle1')
              /\ last'.hit2 = CollideRect(BallAfterPaddle1(ball, paddle1'), paddle2')

C12_InputNeverGated == [][C12_InputStep]_vars

\* During the serve delay after player 2's fifth point player 1 holds W.  Two
\* of the three presses of the run went to paddle 2 (250 + 16), so it is this
\* iteration that moved paddle 1 from 250 to 242.
C12_Witness ==
    /\ score2 >= WINNING_SCORE
    /\ last.op = "wait"
    /\ reset_delay > 0
    /\ held = [w |-> TRUE, s |-> FALSE, up |-> FALSE, down |-> FALSE]
    /\ key_presses = 3
    /\ paddle2.y = 250 + 16
    /\ paddle1.y = 250 - 8
    /\ frame.paddle1 = paddle1

\* C13: Ball.reset enforces its precondition on direction: whatever int it is
\* given, after the call the horizontal velocity is exactly +7 or -7, never 0
\* and never a larger multiple of the initial speed.
C13_ResetEnforcesDirection ==
    last.op = "reset" =>
        ball.velocity_x \in {BALL_SPEED_INITIAL * Scale, -BALL_SPEED_INITIAL * Scale}

\* reset(0) has left a ball that does not move horizontally.
C13_ResetToStandstill ==
    /\ last.op = "reset"
    /\ last.arg = 0
    /\ ball.velocity_x = 0

\* reset(2) has left a ball of twice the initial speed.
C13_ResetToDoubleSpeed ==
    /\ last.op = "reset"
    /\ last.arg = 2
    /\ ball.velocity_x = 2 * BALL_SPEED_INITIAL * Scale

\* C14: an iteration that polls a QUIT event ends the loop after that frame.
\* It applies no key and runs no update: paddles, ball, scores, reset_delay
\* and the key presses applied are those at the start of the iteration, the
\* frame drawn shows exactly that state, and running is false afterwards.  No
\* iteration starts once running is false, and an iteration without a QUIT
\* event leaves running true.
C14_QuitStep ==
    /\ running
    /\ running' <=> last'.op # "quit"
    /\ ~running' =>
          /\ UNCHANGED <<paddle1, paddle2, ball, score1, score2, reset_delay, key_presses>>
          /\ frame' = [paddle1 |-> paddle1, paddle2 |-> paddle2,
                       ball |-> <<ball.x, ball.y>>,
                       score1 |-> score1, score2 |-> score2,
                       message |-> frame'.message]
          /\ frame.message # "nothing drawn" =>
                frame' = frame

C14_QuitEndsLoop == [][C14_QuitStep]_vars

\* The QUIT event came while the ball was in flight after some key presses:
\* the loop has ended and the last frame shows the ball where it was.
C14_Witness ==
    /\ ~running
    /\ last.op = "quit"
    /\ reset_delay = 0
    /\ key_presses > 0
    /\ ball.x # 393
    /\ ball.velocity_y # 0
    /\ frame.ball = <<ball.x, ball.y>>
    /\ frame.paddle1 = paddle1
    /\ frame.paddle2 = paddle2

\* The QUIT event came during a serve delay, which the quit iteration has not
\* counted down.
C14_QuitWhileWaiting ==
    /\ ~running
    /\ last.op = "quit"
    /\ reset_delay = 30
    /\ score1 + score2 > 0

\* C15: Ball.move adds to each coordinate its velocity component truncated
\* toward zero: the displacement d has the sign of v (or is 0) and
\* |d| <= |v| < |d| + 1, so |v| < 1 gives 0; the same ball with v negated is
\* displaced by exactly -d; move leaves the velocity as it was.
C15_Truncated(d, v) ==
    /\ d * v >= 0
    /\ Abs(d) * Scale <= Abs(v)
    /\ Abs(v) < (Abs(d) + 1) * Scale

C15_MoveStep ==
    last'.op = "move" =>
        LET mirrored == BallMove([ball EXCEPT !.velocity_x = -@, !.velocity_y = -@])
        IN  /\ C15_Truncated(ball'.x - ball.x, ball.velocity_x)
            /\ C15_Truncated(ball'.y - ball.y, ball.velocity_y)
            /\ mirrored.x - ball.x = -(ball'.x - ball.x)
            /\ mirrored.y - ball.y = -(ball'.y - ball.y)
            /\ Abs(ball.velocity_y) < Scale => ball'.y = ball.y
            /\ ball'.velocity_x = ball.velocity_x
            /\ ball'.velocity_y = ball.velocity_y

C15_MoveTruncates == [][C15_MoveStep]_vars

\* A ball at the serve position with velocity (-7, -6.3) has moved by (-7, -6),
\* where rounding down would give -7 and rounding to nearest -6.
C15_Witness ==
    /\ last.op = "move"
    /\ last.n = 1
    /\ ball.velocity_x = -7 * Scale
    /\ ball.velocity_y = -6300
    /\ ball.x = 393 - 7
    /\ ball.y = 293 - 6

\* A ball with |vy| = 0.9 has moved without changing its y.
C15_SlowBall ==
    /\ last.op = "move"
    /\ last.n = 1
    /\ ball.velocity_y = -900
    /\ ball.x = 393 + 7
    /\ ball.y = 293

\* C16: in every state of a game the horizontal velocity is exactly 7 or -7:
\* a hit only negates it, whatever speed the hit computes for velocity_y, so
\* the ball travels 7 units per tick horizontally however many hits it took.
C16_HorizontalSpeedConstant ==
    /\ Abs(ball.velocity_x) = 7 * Scale
    /\ Abs(Trunc(ball.velocity_x)) = 7

\* An off-centre hit has just left the ball faster than 7.5 overall; its
\* horizontal velocity is still 7.
C16_Witness ==
    /\ last.op = "play"
    /\ last.hit1 \/ last.hit2
    /\ SpeedSquared(ball) > 7500 * 7500
    /\ Abs(ball.velocity_x) = 7 * Scale

\* C17: in every state of a game a ball moving right lies entirely to the
\* right of paddle 1 (left edge >= 47) and a ball moving left entirely to the
\* left of paddle 2 (right edge <= 753); so a tick's hit on paddle 1 finds the
\* ball moving left, a hit on paddle 2 finds it moving right, and no tick hits
\* both paddles.
C17_Sides(b) ==
    /\ b.velocity_x > 0 => BallLeft(b) >= 47
    /\ b.velocity_x < 0 => BallRight(b) <= 753

C17_SidesStep ==
    /\ C17_Sides(ball)
    /\ C17_Sides(ball')
    /\ PaddleRight(paddle1') < 47
    /\ PaddleLeft(paddle2') > 753
    /\ last'.hit1 => ball.velocity_x < 0
    /\ last'.hit2 => ball.velocity_x > 0
    /\ ~(last'.hit1 /\ last'.hit2)

C17_BallBetweenPaddles == [][C17_SidesStep]_vars

\* Paddle 1 has just returned the ball: it moves right with its left edge at 47.
C17_Witness ==
    /\ last.op = "play"
    /\ last.hit1
    /\ ~last.hit2
    /\ ball.velocity_x > 0
    /\ BallLeft(ball) = 47

\* Paddle 2 has just returned the ball: it moves left with its right edge at 753.
C17_Paddle2Hit ==
    /\ last.op = "play"
    /\ last.hit2
    /\ ~last.hit1
    /\ ball.velocity_x < 0
    /\ BallRight(ball) = 753

\* C18: a tick changes (score1, score2) by (0,0), (+1,0) or (0,+1) and by
\* nothing else; the out-left and the out-right test never both fire in one
\* update; reset_delay is always in 0..30; and whenever reset_delay > 0 the
\* ball is at the serve position (centre (400, 300)) with vy = 0.
C18_Waiting ==
    /\ reset_delay \in 0..30
    /\ reset_delay > 0 =>
          /\ ball.x = 393
          /\ ball.y = 293
          /\ BallCenterX(ball) = 400
          /\ BallCenterY(ball) = 300
          /\ ball.velocity_y = 0

C18_Step ==
    /\ <<score1' - score1, score2' - score2>> \in {<<0, 0>>, <<1, 0>>, <<0, 1>>}
    /\ ~(last'.out_left /\ last'.out_right)
    /\ last'.out_left <=> score2' = score2 + 1
    /\ last'.out_right <=> score1' = score1 + 1
    /\ C18_Waiting
    /\ C18_Waiting'

C18_ScoresOneAtATime == [][C18_Step]_vars

\* Half-way through the serve delay after player 1's second point.
C18_Witness ==
    /\ score1 = 2
    /\ score2 = 0
    /\ last.op = "wait"
    /\ reset_delay = 15
    /\ ball = BallReset(-1)

\* Player 1 has just scored.
C18_RightOut ==
    /\ last.op = "play"
    /\ last.out_right
    /\ ~last.out_left
    /\ score1 > 0
    /\ reset_delay = 30

\* C19: when handle_input reads both keys of one player, that paddle ends
\* where it was if it was at 8 <= y <= 500, and at y = 8 if it was at
\* 0 <= y < 8: opposite keys cancel everywhere, the bottom edge included,
\* except next to the top edge.
C19_BothKeys(from, to) ==
    /\ (8 <= from /\ from <= 500) => to = from
    /\ (0 <= from /\ from < 8) => to = 8
    /\ 0 <= from
    /\ from <= 500

C19_BothKeysStep ==
    /\ (held'.w /\ held'.s) => C19_BothKeys(paddle1.y, paddle1'.y)
    /\ (held'.up /\ held'.down) => C19_BothKeys(paddle2.y, paddle2'.y)

C19_OppositeKeys == [][C19_BothKeysStep]_vars

\* Paddle 1 was at y = 2, one W press short of the top wall, when W and S were
\* read together: it is now at 8.
C19_Witness ==
    /\ last.op = "handle_input"
    /\ held.w
    /\ held.s
    /\ last.from1 = 2
    /\ paddle1.y = 8

\* Paddle 2 was at the bottom edge when UP and DOWN were read together, and
\* is still there.
C19_BottomEdge ==
    /\ last.op = "handle_input"
    /\ held.up
    /\ held.down
    /\ last.from2 = 500
    /\ paddle2.y = 500

\* Paddle 1 was at the top edge when W and S were read together.
C19_TopEdge ==
    /\ last.op = "handle_input"
    /\ held.w
    /\ held.s
    /\ last.from1 = 0
    /\ paddle1.y = 8

\* C20: if no key is ever pressed no point is ever scored.  Both paddles stay
\* at y = 250, the ball keeps vy = 0 and its height, every hit is at the
\* paddle's centre, score1 = score2 = 0 and reset_delay = 0 in every state,
\* and the rally never ends: each paddle returns the ball again and again.
C20_Rallying ==
    /\ score1 = 0
    /\ score2 = 0
    /\ reset_delay = 0
    /\ paddle1.y = 250
    /\ paddle2.y = 250
    /\ ball.velocity_y = 0
    /\ ball.y = 293
    /\ HitOffset(ball, paddle1) = PADDLE_HEIGHT \div 2
    /\ HitOffset(ball, paddle2) = PADDLE_HEIGHT \div 2
    /\ ~last.out_left
    /\ ~last.out_right

C20_NoKeysNoScore ==
    /\ []C20_Rallying
    /\ []<>(last.hit1 /\ ball.velocity_x > 0)
    /\ []<>(last.hit2 /\ ball.velocity_x < 0)

\* Paddle 1 has just returned the ball at its centre, after paddle 2 did:
\* the ball leaves level, no key was pressed, nobody has scored.
C20_Witness ==
    /\ key_presses = 0
    /\ last.op = "play"
    /\ last.hit1
    /\ BallLeft(ball) = 47
    /\ ball.velocity_x = 7 * Scale
    /\ ball.velocity_y = 0
    /\ BallCenterY(ball) = PaddleTop(paddle1) + 50
    /\ score1 + score2 = 0

====
